---------------------------- MODULE Spec2Model ----------------------------
(***************************************************************************)
(* A state-machine model of the notebook GluonCV.ipynb: a top-to-bottom    *)
(* run of its code cells, the VOC dataset loader it subclasses, and the    *)
(* managed training job that estimator.fit submits and waits for.          *)
(*                                                                         *)
(* Python strings are modelled as sequences of one-character strings, so   *)
(* that prefixes, joins and splits are computed and not assumed.           *)
(***************************************************************************)
EXTENDS Integers, Sequences, FiniteSets, TLC

VARIABLES
    pc,             \* the cell the run is at, "done" or "stopped"
    exception,      \* name of the exception that stopped the run, or "None"
    trace,          \* the steps invoked so far, in order
    fs,             \* the notebook instance's file system (VOC folders)
    train_dataset,  \* the VOCLike object bound to train_dataset
    val_dataset,    \* the VOCLike object bound to val_dataset
    val_metric,     \* class_names handed to VOC07MApMetric
    loaderCalls,    \* the arguments of the VOCLike(...) calls so far
    train_image,    \* the image read by train_dataset[24000]
    train_label,    \* the label array read by train_dataset[24000]
    bboxes,         \* train_label[:, :4]
    cids,           \* train_label[:, 4:5]
    bucket,         \* sagemaker_session.default_bucket()
    model_artifacts_location,
    estimator,      \* the MXNet estimator
    job,            \* status of the training job, "NoJob" before fit
    scriptExit,     \* how the remote training script ended
    fitCalls,       \* number of training jobs submitted
    compileCalls,   \* number of compile_model invocations
    deployCalls,    \* number of deploy invocations
    compiled_model, \* the compiled model
    predictor,      \* the deployed endpoint
    output_path,    \* the output path given to compile_model
    klasses,        \* the class names of the debug cell
    num_classes     \* the class list given to get_model

runVars == <<pc, exception, trace>>
dataVars == <<train_dataset, val_dataset, val_metric, loaderCalls>>
itemVars == <<train_image, train_label>>
vizVars == <<bboxes, cids>>
sessVars == <<bucket, model_artifacts_location, estimator>>
jobVars == <<job, scriptExit, fitCalls>>
deployVars == <<output_path, compileCalls, compiled_model, deployCalls, predictor>>
debugVars == <<klasses, num_classes>>

vars == <<runVars, fs, dataVars, itemVars, vizVars, sessVars, jobVars,
          deployVars, debugVars>>

-----------------------------------------------------------------------------
(* Bounds of the model *)

\* image names that may appear in listings and folders
NumImages == 2

\* most runs of a listing file: a listing file is held run-length encoded,
\* the run [name |-> i, count |-> c] standing for c consecutive lines that
\* name the image i
MaxRuns == 2

\* most annotated objects (label rows) in one annotation file
MaxObjects == 2

\* length of a long run of a listing file
LongRun == 24000

ImageIds == 1..NumImages

-----------------------------------------------------------------------------
(* String literals of the notebook *)

sVOC == <<"V","O","C">>
sVOCtrain == <<"V","O","C","t","r","a","i","n">>
sVOCvalidate == <<"V","O","C","v","a","l","i","d","a","t","e">>
sVal == <<"v","a","l">>
sVOCTemplate == <<"V","O","C","T","e","m","p","l","a","t","e">>
sVOCTrain == <<"V","O","C","T","r","a","i","n">>
sVOCValid == <<"V","O","C","V","a","l","i","d">>
sTrain == <<"t","r","a","i","n">>
sValid == <<"v","a","l","i","d">>

\* os.path.join(a, b)
PathJoin(a, b) == a \o <<"/">> \o b

\* s.startswith(p)
StartsWith(s, p) == Len(s) >= Len(p) /\ SubSeq(s, 1, Len(p)) = p


-----------------------------------------------------------------------------
(* The file system the dataset loader reads *)

\* ImageSets/Main/<name>.txt of an ImageSet folder
ListingPath(folderPath, name) ==
    folderPath \o <<"/">> \o <<"I","m","a","g","e","S","e","t","s">> \o <<"/">>
               \o <<"M","a","i","n">> \o <<"/">> \o name \o <<".","t","x","t">>

\* JPEGImages/<image>.jpg of an ImageSet folder
ImagePath(folderPath, image) ==
    [dir |-> PathJoin(folderPath, <<"J","P","E","G","I","m","a","g","e","s">>),
     file |-> image, ext |-> <<".","j","p","g">>]

\* the object nodes an annotation file may hold: class name and bounding box
Objects ==
    { [name |-> "boxwrench",       box |-> <<1, 2, 3, 4>>, difficult |-> 0],
      [name |-> "crescent_wrench", box |-> <<2, 1, 5, 6>>, difficult |-> 1],
      [name |-> "qc",              box |-> <<3, 3, 4, 5>>, difficult |-> 0] }

SeqsUpTo(S, n) == UNION { [1..k -> S] : k \in 0..n }

AnnotationFiles == SeqsUpTo(Objects, MaxObjects)

\* listing files list image names, one per line, without extension
Runs(counts) == [name : ImageIds, count : counts]

Canonical(l) == \A k \in 1..(Len(l) - 1) : l[k].name # l[k + 1].name

\* the listing files drawn for the training split and the validation split
\* when the dataset class is exercised on its own
TrainListings == { l \in SeqsUpTo(Runs({1, LongRun}), MaxRuns) : Canonical(l) }
ValListings == { l \in SeqsUpTo(Runs({1}), MaxRuns) : Canonical(l) }

\* the listing files drawn for a run of the notebook: empty, or naming one
\* image on every line
RunTrainListings ==
    {<< >>} \cup { <<r>> : r \in Runs({1, LongRun, LongRun + 1}) }
RunValListings == {<< >>} \cup { <<r>> : r \in Runs({1}) }

\* number of lines of a listing, or of items of an item list
RECURSIVE Lines(_)
Lines(l) == IF l = << >> THEN 0 ELSE Head(l).count + Lines(Tail(l))

\* the run that holds line k (counted from 1)
RECURSIVE RunAt(_, _)
RunAt(l, k) == IF k <= Head(l).count THEN Head(l)
               ELSE RunAt(Tail(l), k - Head(l).count)

\* the names a listing mentions
Mentioned(l) == { l[k].name : k \in 1..Len(l) }

NoFiles == [listing |-> << >>, listed |-> {}, annotations |-> {}, jpegs |-> {},
            xml |-> << >>]

\* the folders fetched by "aws s3 cp --recursive s3://gluoncv-notebook ."
\* listing: the listing files by path (listed: the paths that exist);
\* annotations, jpegs: the image names with a file in Annotations / JPEGImages
\* of every ImageSet folder (annotation and image files come in pairs);
\* xml: the object nodes of an annotation file
Downloaded(trainFile, hasTrain, validFile, hasValid, images, content) ==
    LET pVal   == ListingPath(PathJoin(sVOC, sVOCvalidate), sVal)
        pTrain == ListingPath(PathJoin(sVOCTemplate, sVOCTrain), sTrain)
        pValid == ListingPath(PathJoin(sVOCTemplate, sVOCValid), sValid)
        paths  == {pVal} \cup (IF hasTrain THEN {pTrain} ELSE {})
                         \cup (IF hasValid THEN {pValid} ELSE {})
    IN  [listing |-> [p \in paths |->
                        IF p = pTrain THEN trainFile
                        ELSE IF p = pValid THEN validFile
                        ELSE [i \in 1..NumImages |-> [name |-> i, count |-> 1]]],
         listed |-> paths,
         annotations |-> images,
         jpegs |-> images,
         xml |-> [i \in ImageIds |-> content]]

-----------------------------------------------------------------------------
(* The dataset loader: gluoncv's VOCDetection and the subclass VOCLike *)

\* the class list in force and the one left commented out above it
CLASSES == <<"boxwrench", "crafthammer", "crescent_wrench">>

\* Python's None for a mapping or a transform: the empty (falsy) value
None == {}

\* dict(zip(classes, range(len(classes)))) as a set of <<name, id>> pairs
DefaultIndexMap(classes) == { <<classes[i], i - 1>> : i \in 1..Len(classes) }

Range(f) == { f[i] : i \in DOMAIN f }

RECURSIVE Flatten(_)
Flatten(ss) == IF ss = << >> THEN << >> ELSE Head(ss) \o Flatten(Tail(ss))

\* the note of the notebook on ImageSet folder names
Recognized(folder) == StartsWith(folder, sVOC)

\* the ImageSet folders of a splits argument that the loader cannot read
Unreadable(files, root, splits) ==
    { i \in 1..Len(splits) :
        \/ ~Recognized(splits[i].folder)
        \/ ListingPath(PathJoin(root, splits[i].folder), splits[i].name)
              \notin files.listed }

\* variant: one item per annotation file of each split's folder
LoadItemsFromFolder(files, root, splits) ==
    Flatten([i \in 1..Len(splits) |->
        LET folderPath == PathJoin(root, splits[i].folder)
        IN  [k \in 1..NumImages |->
               [root |-> folderPath, name |-> k,
                count |-> IF k \in files.annotations THEN 1 ELSE 0]]])

\* _load_items: one (folder path, image name) item per listing line, the
\* listings of the splits one after the other (run-length encoded as the
\* listings are)
LoadItems(files, root, splits) ==
    Flatten([i \in 1..Len(splits) |->
        LET folderPath == PathJoin(root, splits[i].folder)
            lines == files.listing[ListingPath(folderPath, splits[i].name)]
        IN  [k \in 1..Len(lines) |->
               [root |-> folderPath, name |-> lines[k].name,
                count |-> lines[k].count]]])

\* _load_label: one row <<xmin, ymin, xmax, ymax, class id, difficult>> per
\* object node whose class name is one of the classes
RECURSIVE LoadLabel(_, _, _)
LoadLabel(objects, classes, index_map) ==
    IF objects = << >> THEN << >>
    ELSE LET o == Head(objects)
             rest == LoadLabel(Tail(objects), classes, index_map)
         IN  IF o.name \notin Range(classes) THEN rest
             ELSE <<o.box \o <<(CHOOSE p \in index_map : p[1] = o.name)[2],
                                o.difficult>>>> \o rest

\* VOCDetection.__init__ for a class whose class list is classes
VOCDetection__init__(classes, files, root, splits, transform, index_map, preload_label) ==
    IF Unreadable(files, root, splits) # {}
    THEN [error |-> "FileNotFoundError"]
    ELSE LET items == LoadItems(files, root, splits)
         IN  IF preload_label
                /\ \E k \in 1..Len(items) : items[k].name \notin files.annotations
             THEN [error |-> "FileNotFoundError"]
             ELSE [error |-> "None",
                   classes |-> classes,
                   _root |-> root,
                   _splits |-> splits,
                   _transform |-> transform,
                   index_map |-> IF index_map # None THEN index_map
                                 ELSE DefaultIndexMap(classes),
                   _items |-> items,
                   preload_label |-> preload_label]

\* variant: transform and index_map forwarded in each other's position
VOCLike__init__Swapped(files, root, splits, transform, index_map, preload_label) ==
    VOCDetection__init__(CLASSES, files, root, splits, index_map, transform,
                         preload_label)

\* VOCLike.__init__: the call of the parent's __init__
VOCLike__init__(files, root, splits, transform, index_map, preload_label) ==
    VOCDetection__init__(CLASSES, files, root, splits, transform, index_map,
                         preload_label)

\* the defaults of VOCLike.__init__'s optional parameters
VOCLikeDefaults == [transform |-> None, index_map |-> None, preload_label |-> TRUE]

\* the arguments of a VOCLike(root, splits, ...) call, opt the optional ones
CallArgs(root, splits, opt) ==
    [root |-> root, splits |-> splits, transform |-> opt.transform,
     index_map |-> opt.index_map, preload_label |-> opt.preload_label]

\* VOCLike(root=..., splits=...)
VOCLike(files, root, splits) ==
    VOCLike__init__(files, root, splits, VOCLikeDefaults.transform,
                    VOCLikeDefaults.index_map, VOCLikeDefaults.preload_label)

\* len(dataset)
DatasetLen(ds) == Lines(ds._items)

\* dataset._items[idx] for 0 <= idx < len(dataset)
ItemAt(ds, idx) == RunAt(ds._items, idx + 1)

-----------------------------------------------------------------------------
(* Python values and operations used by the cells *)

\* a name of the notebook is unbound until its cell has run
Unbound == [unbound |-> TRUE]
Bound(v) == [value |-> v]
IsBound(x) == "value" \in DOMAIN x

Min(a, b) == IF a < b THEN a ELSE b

\* row[lo:hi] of a Python sequence (0-based, hi excluded, clipped to the length)
Slice(row, lo, hi) == SubSeq(row, lo + 1, Min(hi, Len(row)))

\* label[:, lo:hi] of a two-dimensional array: the columns lo..hi-1 of every row
Columns(label, lo, hi) == [r \in 1..Len(label) |-> Slice(label[r], lo, hi)]

\* variant: train_label[:, 4:], the class id together with what follows it
CidsOfWide(label) == Columns(label, 4, 6)

\* train_label[:, 4:5]
CidsOf(label) == Columns(label, 4, 5)

\* train_label[:, :4]
BBoxesOf(label) == Columns(label, 0, 4)

\* the index read from the training dataset
ItemIndex == 24000

\* 's3://{}/artifacts'.format(bucket)
ArtifactsLocation(b) ==
    <<"s","3",":","/","/">> \o b \o <<"/","a","r","t","i","f","a","c","t","s">>

\* s.split(sep) for a one-character separator
RECURSIVE SplitAcc(_, _, _)
SplitAcc(s, sep, cur) ==
    IF s = << >> THEN <<cur>>
    ELSE IF Head(s) = sep THEN <<cur>> \o SplitAcc(Tail(s), sep, << >>)
    ELSE SplitAcc(Tail(s), sep, Append(cur, Head(s)))

Split(s, sep) == SplitAcc(s, sep, << >>)

\* sep.join(parts)
RECURSIVE Join(_, _)
Join(parts, sep) ==
    IF parts = << >> THEN << >>
    ELSE IF Len(parts) = 1 THEN parts[1]
    ELSE parts[1] \o <<sep>> \o Join(Tail(parts), sep)

\* variant: '/'.join(path.split('/')[:-2]), one segment too many removed
CompileOutputPathShort(path) ==
    Join(SubSeq(Split(path, "/"), 1, Len(Split(path, "/")) - 2), "/")

\* '/'.join(path.split('/')[:-1])
CompileOutputPath(path) ==
    LET parts == Split(path, "/")
    IN  Join(SubSeq(parts, 1, Len(parts) - 1), "/")

Digits == <<"0","1","2","3","4","5","6","7","8","9">>

\* str(n) for n >= 0
RECURSIVE Str(_)
Str(n) == IF n < 10 THEN <<Digits[n + 1]>>
          ELSE Str(n \div 10) \o <<Digits[(n % 10) + 1]>>

\* the class names of the debug cell
Klasses ==
    <<"ac", "2c", "3c", "4c", "5c", "6c", "7c", "8c", "9c", "10c", "jc", "qc",
      "kc", "ad", "2d", "3d", "4d", "5d", "6d", "7d", "8d", "9d", "10d", "jd",
      "qd", "kd", "ah", "2h", "3h", "4h", "5h", "6h", "7h", "8h", "9h", "10h",
      "jh", "qh", "kh", "as", "2s", "3s", "4s", "5s", "6s", "7s", "8s", "9s",
      "10s", "js", "qs", "ks">>

\* variant: [str(x) for x in range(len(k))], one name per class
NumClassesExact(k) == [x \in 1..Len(k) |-> Str(x - 1)]

\* [str(x) for x in range(len(k)+1)]
NumClasses(k) == [x \in 1..(Len(k) + 1) |-> Str(x - 1)]

\* the bucket names the session may report
Buckets == { <<"b">>, <<"m","l","-","1">> }

\* the arguments of the two VOCLike(...) calls
DatasetRoot == sVOCTemplate

\* variant: a training folder named without the prefix
TrainSplitsNoPrefix == <<[folder |-> sTrain, name |-> sTrain]>>

TrainSplits == <<[folder |-> sVOCTrain, name |-> sTrain]>>
ValSplits == <<[folder |-> sVOCValid, name |-> sValid]>>

\* variant: the commented-out call, estimator.fit(inputs, wait=False)
FitWaitOff == FALSE

\* estimator.fit(inputs) leaves wait at its default
FitWait == TRUE

\* variant: a failed job is accepted as well
AllowedStatusesWithFailed == {"Completed", "Stopped", "Failed"}

\* the statuses _check_job_status accepts without raising
AllowedStatuses == {"Completed", "Stopped"}

\* variant: a stopped job is not taken for a finished one
TerminalStatusesNoStopped == {"Completed", "Failed"}

\* the statuses at which the wait inside fit ends
TerminalStatuses == {"Completed", "Failed", "Stopped"}

\* variant: the deploy cell placed above the compile cell
CellsSwapped == <<"install", "imports", "download", "tree", "cat_annotation",
                  "cat_listing", "declare", "datasets", "getitem", "label_shape",
                  "print_label", "viz", "session", "estimator", "fit", "deploy",
                  "compile", "debug", "empty">>

\* the code cells, top to bottom
Cells == <<"install", "imports", "download", "tree", "cat_annotation",
           "cat_listing", "declare", "datasets", "getitem", "label_shape",
           "print_label", "viz", "session", "estimator", "fit", "compile",
           "deploy", "debug", "empty">>

\* cells that change none of the modelled names
PlainCells == {"install", "imports", "tree", "cat_annotation", "cat_listing",
               "declare", "label_shape", "print_label", "empty"}

IndexOf(seq, x) == CHOOSE i \in 1..Len(seq) : seq[i] = x

\* where the run goes when the cell c has finished
NextCell(c) == IF IndexOf(Cells, c) = Len(Cells) THEN "done"
               ELSE Cells[IndexOf(Cells, c) + 1]

\* variant: a cell that raised is run again
AfterExceptionRetry(c) == c

\* variant: the cells below are run although the cell c has raised
AfterExceptionContinue(c) == NextCell(c)

\* where the run goes when the cell c has raised: no cell catches an
\* exception, so the run stops there
AfterException(c) == "stopped"

-----------------------------------------------------------------------------
(* The run *)

Init ==
    /\ pc = Cells[1]
    /\ exception = "None"
    /\ trace = << >>
    /\ fs = NoFiles
    /\ train_dataset = Unbound
    /\ val_dataset = Unbound
    /\ val_metric = Unbound
    /\ loaderCalls = << >>
    /\ train_image = Unbound
    /\ train_label = Unbound
    /\ bboxes = Unbound
    /\ cids = Unbound
    /\ bucket = Unbound
    /\ model_artifacts_location = Unbound
    /\ estimator = Unbound
    /\ job = "NoJob"
    /\ scriptExit = "None"
    /\ fitCalls = 0
    /\ output_path = Unbound
    /\ compileCalls = 0
    /\ compiled_model = Unbound
    /\ deployCalls = 0
    /\ predictor = Unbound
    /\ klasses = Unbound
    /\ num_classes = Unbound

\* the cell at pc ends normally
Finish ==
    /\ pc' = NextCell(pc)
    /\ trace' = Append(trace, pc)
    /\ UNCHANGED exception

\* the cell at pc raises e
Raise(e) ==
    /\ pc' = AfterException(pc)
    /\ trace' = Append(trace, pc)
    /\ exception' = e

\* shell commands, imports, the class declaration and prints
PlainCell ==
    /\ pc \in PlainCells
    /\ Finish
    /\ UNCHANGED <<fs, dataVars, itemVars, vizVars, sessVars, jobVars,
                   deployVars, debugVars>>

\* !aws s3 cp --recursive s3://gluoncv-notebook .
DownloadCell ==
    /\ pc = "download"
    /\ \E trainFile \in RunTrainListings, validFile \in RunValListings,
          hasTrain \in BOOLEAN, hasValid \in BOOLEAN,
          images \in SUBSET ImageIds, content \in AnnotationFiles :
          /\ (~hasTrain => trainFile = << >>)
          /\ (~hasValid => validFile = << >>)
          /\ fs' = Downloaded(trainFile, hasTrain, validFile, hasValid,
                              images, content)
    /\ Finish
    /\ UNCHANGED <<dataVars, itemVars, vizVars, sessVars, jobVars,
                   deployVars, debugVars>>

\* train_dataset = VOCLike(...); val_dataset = VOCLike(...);
\* val_metric = VOC07MApMetric(...); print(len(...))
DatasetsCell ==
    /\ pc = "datasets"
    /\ LET train == VOCLike(fs, DatasetRoot, TrainSplits)
           val == VOCLike(fs, DatasetRoot, ValSplits)
           trainCall == CallArgs(DatasetRoot, TrainSplits, VOCLikeDefaults)
           valCall == CallArgs(DatasetRoot, ValSplits, VOCLikeDefaults)
       IN  IF train.error # "None"
           THEN /\ Raise(train.error)
                /\ loaderCalls' = Append(loaderCalls, trainCall)
                /\ UNCHANGED <<train_dataset, val_dataset, val_metric>>
           ELSE IF val.error # "None"
           THEN /\ Raise(val.error)
                /\ loaderCalls' = loaderCalls \o <<trainCall, valCall>>
                /\ train_dataset' = Bound(train)
                /\ UNCHANGED <<val_dataset, val_metric>>
           ELSE /\ Finish
                /\ loaderCalls' = loaderCalls \o <<trainCall, valCall>>
                /\ train_dataset' = Bound(train)
                /\ val_dataset' = Bound(val)
                /\ val_metric' = Bound([class_names |-> val.classes])
    /\ UNCHANGED <<fs, itemVars, vizVars, sessVars, jobVars, deployVars,
                   debugVars>>

\* train_image, train_label = train_dataset[24000]
GetItemCell ==
    /\ pc = "getitem"
    /\ IF ~IsBound(train_dataset)
       THEN Raise("NameError") /\ UNCHANGED itemVars
       ELSE LET ds == train_dataset.value
            IN  IF ItemIndex >= DatasetLen(ds)
                THEN Raise("IndexError") /\ UNCHANGED itemVars
                ELSE LET item == ItemAt(ds, ItemIndex)
                     IN  IF item.name \notin fs.annotations
                         THEN Raise("FileNotFoundError") /\ UNCHANGED itemVars
                         ELSE IF item.name \notin fs.jpegs
                         THEN Raise("MXNetError") /\ UNCHANGED itemVars
                         ELSE /\ Finish
                              /\ train_image' =
                                   Bound(ImagePath(item.root, item.name))
                              /\ train_label' =
                                   Bound(LoadLabel(fs.xml[item.name],
                                                   ds.classes, ds.index_map))
    /\ UNCHANGED <<fs, dataVars, vizVars, sessVars, jobVars, deployVars,
                   debugVars>>

\* bboxes = train_label[:, :4]; cids = train_label[:, 4:5]; viz.plot_bbox(...)
\* an annotation without objects of a known class loads as an array without
\* a second axis, which the slices reject
VizCell ==
    /\ pc = "viz"
    /\ IF ~IsBound(train_label)
       THEN Raise("NameError") /\ UNCHANGED vizVars
       ELSE IF train_label.value = << >>
       THEN Raise("IndexError") /\ UNCHANGED vizVars
       ELSE /\ Finish
            /\ bboxes' = Bound(BBoxesOf(train_label.value))
            /\ cids' = Bound(CidsOf(train_label.value))
    /\ UNCHANGED <<fs, dataVars, itemVars, sessVars, jobVars, deployVars,
                   debugVars>>

\* bucket = sagemaker_session.default_bucket(); model_artifacts_location = ...
SessionCell ==
    /\ pc = "session"
    /\ \E b \in Buckets :
          /\ bucket' = Bound(b)
          /\ model_artifacts_location' = Bound(ArtifactsLocation(b))
    /\ Finish
    /\ UNCHANGED <<fs, dataVars, itemVars, vizVars, estimator, jobVars,
                   deployVars, debugVars>>

\* estimator = MXNet(...)
EstimatorCell ==
    /\ pc = "estimator"
    /\ IF ~IsBound(model_artifacts_location)
       THEN Raise("NameError") /\ UNCHANGED estimator
       ELSE /\ Finish
            /\ estimator' = Bound([entry_point |-> "train_ssd-playing-cards.py",
                                   output_path |-> model_artifacts_location.value,
                                   train_instance_count |-> 1,
                                   train_instance_type |-> "ml.p3.16xlarge",
                                   framework_version |-> "1.6.0",
                                   py_version |-> "py3",
                                   train_max_run |-> 172800])
    /\ UNCHANGED <<fs, dataVars, itemVars, vizVars, bucket,
                   model_artifacts_location, jobVars, deployVars, debugVars>>

\* estimator.fit("s3://gluoncv-training/VOC-PlayingCards"): submits the
\* training job and, when wait is set, starts waiting for it
FitCell ==
    /\ pc = "fit"
    /\ IF ~IsBound(estimator)
       THEN Raise("NameError") /\ UNCHANGED jobVars
       ELSE /\ job' = "Starting"
            /\ scriptExit' = "None"
            /\ fitCalls' = fitCalls + 1
            /\ trace' = Append(trace, pc)
            /\ pc' = IF FitWait THEN "fit_wait" ELSE NextCell(pc)
            /\ UNCHANGED exception
    /\ UNCHANGED <<fs, dataVars, itemVars, vizVars, sessVars, deployVars,
                   debugVars>>

\* the wait inside fit ends once the job has a terminal status;
\* _check_job_status raises unless that status is an allowed one
FitReturn ==
    /\ pc = "fit_wait"
    /\ job \in TerminalStatuses
    /\ IF job \in AllowedStatuses
       THEN pc' = NextCell("fit") /\ UNCHANGED exception
       ELSE pc' = AfterException("fit")
            /\ exception' = "UnexpectedStatusException"
    /\ UNCHANGED <<trace, fs, dataVars, itemVars, vizVars, sessVars, jobVars,
                   deployVars, debugVars>>

\* the training platform: Starting - Downloading - Training - Uploading
JobDownloads ==
    /\ job = "Starting"
    /\ job' = "Downloading"
    /\ UNCHANGED <<runVars, fs, dataVars, itemVars, vizVars, sessVars,
                   scriptExit, fitCalls, deployVars, debugVars>>

JobTrains ==
    /\ job = "Downloading"
    /\ job' = "Training"
    /\ UNCHANGED <<runVars, fs, dataVars, itemVars, vizVars, sessVars,
                   scriptExit, fitCalls, deployVars, debugVars>>

\* the entry-point script ends, normally or with an error
ScriptExits ==
    /\ job = "Training"
    /\ \E e \in {"ok", "error"} : scriptExit' = e
    /\ job' = "Uploading"
    /\ UNCHANGED <<runVars, fs, dataVars, itemVars, vizVars, sessVars,
                   fitCalls, deployVars, debugVars>>

\* the job runs longer than train_max_run and is stopped
MaxRunExceeded ==
    /\ job = "Training"
    /\ job' = "Stopped"
    /\ UNCHANGED <<runVars, fs, dataVars, itemVars, vizVars, sessVars,
                   scriptExit, fitCalls, deployVars, debugVars>>

\* the terminal status of a job whose script ended as e
StatusAfter(e) == IF e = "ok" THEN "Completed" ELSE "Failed"

JobEnds ==
    /\ job = "Uploading"
    /\ job' = StatusAfter(scriptExit)
    /\ UNCHANGED <<runVars, fs, dataVars, itemVars, vizVars, sessVars,
                   scriptExit, fitCalls, deployVars, debugVars>>

\* output_path = ...; compiled_model = estimator.compile_model(...)
CompileCell ==
    /\ pc = "compile"
    /\ IF ~IsBound(estimator)
       THEN Raise("NameError")
            /\ UNCHANGED <<output_path, compileCalls, compiled_model>>
       ELSE /\ output_path' = Bound(CompileOutputPath(estimator.value.output_path))
            /\ compileCalls' = compileCalls + 1
            /\ \E ok \in BOOLEAN :
                 IF ok /\ job \in {"Completed", "Stopped"}
                 THEN /\ Finish
                      /\ compiled_model' =
                           Bound([target_instance_family |-> "inf1",
                                  input_shape |-> <<1, 1, 512, 512>>,
                                  output_path |-> output_path'.value])
                 ELSE /\ Raise(IF job \in {"Completed", "Stopped"}
                               THEN "UnexpectedStatusException"
                               ELSE "ValueError")
                      /\ UNCHANGED compiled_model
    /\ UNCHANGED <<fs, dataVars, itemVars, vizVars, sessVars, jobVars,
                   deployCalls, predictor, debugVars>>

\* predictor = compiled_model.deploy(...)
DeployCell ==
    /\ pc = "deploy"
    /\ IF ~IsBound(compiled_model)
       THEN Raise("NameError") /\ UNCHANGED <<deployCalls, predictor>>
       ELSE /\ deployCalls' = deployCalls + 1
            /\ \E ok \in BOOLEAN :
                 IF ok
                 THEN /\ Finish
                      /\ predictor' =
                           Bound([initial_instance_count |-> 1,
                                  instance_type |-> "ml.inf1.2xlarge",
                                  model |-> compiled_model.value])
                 ELSE Raise("UnexpectedStatusException") /\ UNCHANGED predictor
    /\ UNCHANGED <<fs, dataVars, itemVars, vizVars, sessVars, jobVars,
                   output_path, compileCalls, compiled_model, debugVars>>

\* klasses = [...]; num_classes = [str(x) for x in range(len(klasses)+1)]; ...
DebugCell ==
    /\ pc = "debug"
    /\ klasses' = Bound(Klasses)
    /\ num_classes' = Bound(NumClasses(Klasses))
    /\ Finish
    /\ UNCHANGED <<fs, dataVars, itemVars, vizVars, sessVars, jobVars,
                   deployVars>>

Platform == JobDownloads \/ JobTrains \/ ScriptExits \/ MaxRunExceeded \/ JobEnds

Next ==
    \/ PlainCell
    \/ DownloadCell
    \/ DatasetsCell
    \/ GetItemCell
    \/ VizCell
    \/ SessionCell
    \/ EstimatorCell
    \/ FitCell
    \/ FitReturn
    \/ JobDownloads
    \/ JobTrains
    \/ ScriptExits
    \/ MaxRunExceeded
    \/ JobEnds
    \/ CompileCell
    \/ DeployCell
    \/ DebugCell

Spec == Init /\ [][Next]_vars

-----------------------------------------------------------------------------
(* The dataset class on its own: VOCLike(...) called with any arguments *)

sCards == <<"c","a","r","d","s">>

LoaderRoots == {sVOCTemplate, sVOC}

LoaderSplits ==
    { TrainSplits, ValSplits, TrainSplits \o ValSplits,
      <<[folder |-> sVOCvalidate, name |-> sVal]>>,
      <<[folder |-> sCards, name |-> sTrain]>> }

LoaderTransforms == {None, {"flip"}}

LoaderIndexMaps ==
    {None, {<<"boxwrench", 2>>, <<"crafthammer", 1>>, <<"crescent_wrench", 0>>}}

InitLoader ==
    /\ pc = "construct"
    /\ exception = "None"
    /\ trace = << >>
    /\ \E trainFile \in TrainListings, validFile \in ValListings,
          images \in SUBSET ImageIds :
          fs = Downloaded(trainFile, TRUE, validFile, TRUE, images, << >>)
    /\ train_dataset = Unbound
    /\ val_dataset = Unbound
    /\ val_metric = Unbound
    /\ loaderCalls = << >>
    /\ train_image = Unbound
    /\ train_label = Unbound
    /\ bboxes = Unbound
    /\ cids = Unbound
    /\ bucket = Unbound
    /\ model_artifacts_location = Unbound
    /\ estimator = Unbound
    /\ job = "NoJob"
    /\ scriptExit = "None"
    /\ fitCalls = 0
    /\ output_path = Unbound
    /\ compileCalls = 0
    /\ compiled_model = Unbound
    /\ deployCalls = 0
    /\ predictor = Unbound
    /\ klasses = Unbound
    /\ num_classes = Unbound

\* train_dataset = VOCLike(root, splits, transform, index_map, preload_label)
Construct(ds, args) ==
    /\ loaderCalls' = Append(loaderCalls, args)
    /\ trace' = Append(trace, pc)
    /\ pc' = "constructed"
    /\ IF ds.error # "None"
       THEN exception' = ds.error /\ UNCHANGED train_dataset
       ELSE train_dataset' = Bound(ds) /\ UNCHANGED exception
    /\ UNCHANGED <<fs, val_dataset, val_metric, itemVars, vizVars, sessVars,
                   jobVars, deployVars, debugVars>>

ConstructWithAll ==
    /\ pc = "construct"
    /\ \E root \in LoaderRoots, splits \in LoaderSplits,
          transform \in LoaderTransforms, index_map \in LoaderIndexMaps,
          preload_label \in BOOLEAN :
          Construct(VOCLike__init__(fs, root, splits, transform, index_map,
                                    preload_label),
                    CallArgs(root, splits,
                             [transform |-> transform, index_map |-> index_map,
                              preload_label |-> preload_label]))

ConstructWithDefaults ==
    /\ pc = "construct"
    /\ \E root \in LoaderRoots, splits \in LoaderSplits :
          Construct(VOCLike(fs, root, splits),
                    [root |-> root, splits |-> splits, defaults |-> TRUE])

NextLoader == ConstructWithAll \/ ConstructWithDefaults

SpecLoader == InitLoader /\ [][NextLoader]_vars

-----------------------------------------------------------------------------
(* Properties *)

NonTerminalStatuses == {"Starting", "Downloading", "Training", "Uploading"}

\* C1: a training script that exits with an error ends the job in status
\* Failed, and for a Failed job fit raises UnexpectedStatusException: the
\* run never goes on past the fit cell as if the job had succeeded
C1_FailedJobRaises ==
    /\ (scriptExit = "error" /\ job \in TerminalStatuses) => job = "Failed"
    /\ job = "Failed" =>
         /\ pc \in {"fit_wait", "stopped"}
         /\ pc = "stopped" => exception = "UnexpectedStatusException"
         /\ compileCalls = 0 /\ deployCalls = 0

C1_Witness ==
    /\ scriptExit = "error"
    /\ job = "Failed"
    /\ pc = "stopped"
    /\ exception = "UnexpectedStatusException"

\* the step of the fixed order that a cell belongs to, 0 for the cells between
StageOf(c) ==
    CASE c \in {"install", "imports"} -> 1
      [] c \in {"download", "tree", "cat_annotation", "cat_listing"} -> 2
      [] c = "declare" -> 3
      [] c = "datasets" -> 4
      [] c = "fit" -> 5
      [] c = "compile" -> 6
      [] c = "deploy" -> 7
      [] c = "debug" -> 8
      [] OTHER -> 0

\* C2: the steps of a run happen in the order setup, inspection, VOCLike
\* declaration, dataset and metric instantiation, fit, compile_model, deploy,
\* debug; a step is started only when the one before it has been, no cell is
\* started while fit is waiting, compile_model is invoked only after fit and
\* deploy only with a compiled model
C2_FixedOrder ==
    /\ \A i \in 1..Len(trace) :
         StageOf(trace[i]) > 1 =>
           \E j \in 1..(i - 1) : StageOf(trace[j]) = StageOf(trace[i]) - 1
    /\ \A i, j \in 1..Len(trace) :
         (i < j /\ StageOf(trace[i]) # 0 /\ StageOf(trace[j]) # 0) =>
           StageOf(trace[i]) <= StageOf(trace[j])
    /\ pc = "fit_wait" => trace[Len(trace)] = "fit"
    /\ compileCalls > 0 => (fitCalls > 0 /\ job \in TerminalStatuses)
    /\ deployCalls > 0 => (compileCalls > 0 /\ IsBound(compiled_model))

C2_Witness ==
    /\ pc = "done"
    /\ deployCalls = 1
    /\ IsBound(predictor)
    /\ IsBound(num_classes)

\* C3: while the training job has a non-terminal status the run is inside
\* fit and no later cell has run; once the run is past fit the job has a
\* terminal status
C3_FitBlocks ==
    /\ job \in NonTerminalStatuses =>
         (pc = "fit_wait" /\ compileCalls = 0 /\ deployCalls = 0)
    /\ (fitCalls > 0 /\ pc # "fit_wait") => job \in TerminalStatuses

C3_Witness == job = "Training" /\ pc = "fit_wait"

Count(seq, x) == Cardinality({ i \in 1..Len(seq) : seq[i] = x })

\* C4: in a run each of fit, compile_model and deploy is invoked at most
\* once; a Failed training job is followed by no second submission
C4_NoRetry ==
    /\ fitCalls <= 1
    /\ compileCalls <= 1
    /\ deployCalls <= 1
    /\ Count(trace, "fit") <= 1
    /\ Count(trace, "compile") <= 1
    /\ Count(trace, "deploy") <= 1

C4_Witness == job = "Failed" /\ pc = "stopped" /\ fitCalls = 1

\* C5: the class list of every VOCLike dataset has exactly 52 entries
C5_FiftyTwoClasses ==
    /\ IsBound(train_dataset) => Len(train_dataset.value.classes) = 52
    /\ IsBound(val_dataset) => Len(val_dataset.value.classes) = 52

\* the parent's result for the arguments of a VOCLike call
ParentResult(call) ==
    IF "defaults" \in DOMAIN call
    THEN VOCDetection__init__(CLASSES, fs, call.root, call.splits, None, None,
                              TRUE)
    ELSE VOCDetection__init__(CLASSES, fs, call.root, call.splits,
                              call.transform, call.index_map,
                              call.preload_label)

\* C6: a VOCLike(...) call gives what VOCDetection.__init__ gives for the
\* same root, splits, transform, index_map and preload_label (for the
\* defaults None, None, True when they are left out) with CLASSES as the
\* class list: the same object, or the same exception
C6_ForwardsArguments ==
    pc = "constructed" =>
      LET expected == ParentResult(loaderCalls[Len(loaderCalls)])
      IN  IF expected.error # "None"
          THEN exception = expected.error /\ ~IsBound(train_dataset)
          ELSE exception = "None" /\ train_dataset = Bound(expected)

C6_Witness ==
    /\ pc = "constructed"
    /\ IsBound(train_dataset)
    /\ "defaults" \notin DOMAIN loaderCalls[1]
    /\ loaderCalls[1].transform # None
    /\ loaderCalls[1].index_map = None
    /\ ~loaderCalls[1].preload_label
    /\ DatasetLen(train_dataset.value) > 0

\* C7: bboxes holds columns 0..3 and cids column 4 of every row of the
\* label, row for row, and the label is still the array that was read
C7_LabelSplit ==
    IsBound(bboxes) =>
      LET label == train_label.value
          ds == train_dataset.value
      IN  /\ IsBound(cids)
          /\ Len(bboxes.value) = Len(label)
          /\ Len(cids.value) = Len(label)
          /\ \A r \in 1..Len(label) :
               /\ bboxes.value[r] =
                    <<label[r][1], label[r][2], label[r][3], label[r][4]>>
               /\ cids.value[r] = <<label[r][5]>>
          /\ label = LoadLabel(fs.xml[ItemAt(ds, ItemIndex).name],
                               ds.classes, ds.index_map)

C7_Witness ==
    /\ IsBound(bboxes)
    /\ IsBound(cids)
    /\ Len(train_label.value) = 2
    /\ train_label.value[1] # train_label.value[2]

C10_DatasetFolders ==
    /\ IsBound(val_dataset) =>
         /\ val_dataset.value._root = sVOC
         /\ val_dataset.value._splits =
              <<[folder |-> sVOCvalidate, name |-> sVal]>>
    /\ IsBound(train_dataset) =>
         /\ train_dataset.value._root = sVOC
         /\ Len(train_dataset.value._splits) = 1
         /\ train_dataset.value._splits[1].folder = sVOCtrain

\* C11: once fit has ended for a Failed training job (by raising), compile_model
\* and deploy have not been and are not invoked: no compiled model, no endpoint
C11_NoCompileAfterFailedFit ==
    (job = "Failed" /\ pc # "fit_wait") =>
      /\ Count(trace, "compile") = 0
      /\ Count(trace, "deploy") = 0
      /\ compileCalls = 0
      /\ deployCalls = 0
      /\ ~IsBound(output_path)
      /\ ~IsBound(compiled_model)
      /\ ~IsBound(predictor)
      /\ ~ENABLED CompileCell
      /\ ~ENABLED DeployCell

C11_Witness ==
    /\ exception = "UnexpectedStatusException"
    /\ job = "Failed"
    /\ trace[Len(trace)] = "fit"
    /\ pc = "stopped"
    /\ IsBound(estimator)

\* the run with a platform that keeps making progress and stops a job at
\* its maximum runtime, and a wait that ends when it can; that the training
\* script ends by itself is not assumed
SpecFair ==
    /\ Spec
    /\ WF_vars(JobDownloads)
    /\ WF_vars(JobTrains)
    /\ WF_vars(MaxRunExceeded)
    /\ WF_vars(JobEnds)
    /\ WF_vars(FitReturn)

\* C12: every submitted training job eventually reaches a terminal status,
\* and the run eventually leaves the fit cell, by return or by exception
C12_FitTerminates ==
    /\ (job \in {"Starting", "Downloading", "Training", "Uploading"})
         ~> (job \in {"Completed", "Failed", "Stopped"})
    /\ (pc = "fit_wait") ~> (pc \in {"compile", "stopped"})

C12_Witness ==
    /\ job = "Stopped"
    /\ scriptExit = "None"
    /\ pc = "compile"
    /\ fitCalls = 1

\* C13: for a bucket name b without '/', the estimator's output path is
\* 's3://' + b + '/artifacts' and the output path given to compile_model is
\* that path without its last '/'-separated segment, which is 's3://' + b
C13_CompileOutputPath ==
    IsBound(output_path) =>
      LET b == bucket.value
          est == estimator.value.output_path
          out == output_path.value
      IN  /\ \A i \in 1..Len(b) : b[i] # "/"
          /\ est = <<"s", "3", ":", "/", "/">> \o b
                     \o <<"/", "a", "r", "t", "i", "f", "a", "c", "t", "s">>
          /\ out = <<"s", "3", ":", "/", "/">> \o b
          /\ est = out \o <<"/", "a", "r", "t", "i", "f", "a", "c", "t", "s">>
          /\ IsBound(compiled_model) => compiled_model.value.output_path = out

C13_Witness ==
    /\ IsBound(output_path)
    /\ IsBound(compiled_model)
    /\ Len(bucket.value) > 1
    /\ compileCalls = 1

\* C14: whenever the cell reading train_dataset[24000] runs, the index
\* 24000 is smaller than len(train_dataset)
C14_IndexInBounds ==
    (pc = "getitem" /\ IsBound(train_dataset)) =>
      24000 < DatasetLen(train_dataset.value)

\* the number a string of decimal digits writes
RECURSIVE DecimalValue(_)
DecimalValue(str) ==
    IF str = << >> THEN 0
    ELSE 10 * DecimalValue(SubSeq(str, 1, Len(str) - 1))
         + (CHOOSE d \in 0..9 : Digits[d + 1] = str[Len(str)])

\* C15: num_classes has len(klasses)+1 entries, the decimal strings of
\* 0..len(klasses) in increasing order and without duplicates; for the 52
\* card names these are the 53 strings '0'..'52'
C15_NumClasses ==
    IsBound(num_classes) =>
      LET n == num_classes.value
          k == klasses.value
      IN  /\ Len(k) = 52
          /\ Len(n) = Len(k) + 1
          /\ Len(n) = 53
          /\ \A i \in 1..Len(n) :
               /\ Len(n[i]) >= 1
               /\ \A j \in 1..Len(n[i]) : \E d \in 1..10 : Digits[d] = n[i][j]
               /\ (Len(n[i]) > 1 => n[i][1] # "0")
               /\ DecimalValue(n[i]) = i - 1
          /\ \A i, j \in 1..Len(n) : i # j => n[i] # n[j]
          /\ n[1] = <<"0">>
          /\ n[Len(n)] = <<"5", "2">>

C15_Witness ==
    /\ IsBound(num_classes)
    /\ IsBound(klasses)
    /\ pc = "done"
    /\ num_classes.value[11] = <<"1", "0">>

=============================================================================
